---------------------------- MODULE Spec2Model ----------------------------
(***************************************************************************)
(* Model of the identity-verification bridge (xds_dovs):                   *)
(*   xds_main.py      the external verification client, the polling loop,  *)
(*                    the live insert and the audit-log writer             *)
(*   db_access.py     the datastore layer (insert, fetch, deletes, log     *)
(*                    pruning, photo path normalisation)                   *)
(*   log_to_db.py     the audit-log reconciliation (parse, insert,         *)
(*                    retrofill)                                           *)
(*   dashboard_app.py the dashboard filters and the delete route           *)
(*                                                                         *)
(* Text is modelled as a sequence of tokens (a tuple of strings); a        *)
(* nullable value is a sequence of length 0 (None / NULL) or 1 (a value).  *)
(***************************************************************************)
EXTENDS Integers, Sequences, FiniteSets, TLC

VARIABLES
    pollPc,        \* poll_dov_result: position of the polling loop
    pollMax,       \* poll_dov_result: max_attempts
    pollScript,    \* what the i-th call of get_dov_result answers
    pollAttempt,   \* poll_dov_result: the loop variable attempt
    pollCalls,     \* number of get_dov_result calls made so far
    pollResult,    \* poll_dov_result: the local dov_result
    pollRet,       \* poll_dov_result: the value returned
    pathIn,        \* normalize_path: the argument
    pathOut,       \* normalize_path(pathIn), once computed
    pathOut2,      \* normalize_path(pathOut), once computed
    pathPc,        \* how many times normalize_path has been applied
    db,            \* the verifications table: a set of rows
    nextId,        \* the next AUTOINCREMENT id
    log,           \* dov_audit_log.txt in BASE_DIR: a sequence of lines
    files,         \* the files that exist under BASE_DIR (paths relative to it)
    cwd,           \* the working directory of the processes: "base" is BASE_DIR
    clock,         \* datetime.now(), as an index of ClockTs
    op,            \* the last operation: its name, arguments and outcome
    flowPc,        \* xds_main __main__: the position of the script
    flowCalls,     \* xds_main __main__: the external calls made, in order
    flowLocals,    \* xds_main __main__: ticket, enquiry_id, enquiry_result_id
    schema,        \* verifications.db: the file, the table and its columns
    prunePc,       \* delete_by_id_number of a dashboard request: its position
    pruneLocals,   \* its id_number and deleted_count, and content once read
    writerPc,      \* log_verification_result of the flow: its position
    writerBlock    \* the lines it has written to its buffer

pollVars == <<pollPc, pollMax, pollScript, pollAttempt, pollCalls, pollResult, pollRet>>
pathVars == <<pathIn, pathOut, pathOut2, pathPc>>
flowVars == <<flowPc, flowCalls, flowLocals>>
raceVars == <<prunePc, pruneLocals, writerPc, writerBlock>>
sysVars == <<db, nextId, log, files, cwd, clock, op, flowVars, schema, raceVars>>
vars == <<pollVars, pathVars, sysVars>>

(***************************************************************************)
(* Nullable values.                                                        *)
(***************************************************************************)
Null == <<>>

Some(v) == <<v>>

IsNull(o) == Len(o) = 0

Val(o) == o[1]

Nullable(S) == {Null} \cup {Some(v) : v \in S}

(***************************************************************************)
(* Token sequences.                                                        *)
(***************************************************************************)
SeqsUpTo(S, n) == UNION {[1..k -> S] : k \in 0..n}

StartsWith(s, pre) == Len(s) >= Len(pre) /\ SubSeq(s, 1, Len(pre)) = pre

Contains(s, tok) == \E i \in 1..Len(s) : s[i] = tok

(***************************************************************************)
(* poll_dov_result (xds_main.py).                                          *)
(* A response of get_dov_result is an exception ("exc"), None ("none": the *)
(* result element has no text) or a text ("text"), a sequence of tokens in *)
(* which "<NoResult>" stands for an occurrence of that substring.          *)
(***************************************************************************)
MaxAttempts == 3

RExc == [k |-> "exc", t |-> <<>>]

RNone == [k |-> "none", t |-> <<>>]

RText(t) == [k |-> "text", t |-> t]

Responses ==
    {RExc, RNone, RText(<<>>), RText(<<"<NoResult>">>),
     RText(<<"a", "<NoResult>">>), RText(<<"a">>), RText(<<"b">>)}

\* The string returned after the loop.
PollTimeoutSentinel == RText(<<"DOV Result polling timed out">>)

\* Python truthiness of a get_dov_result value: None and "" are falsy.
Truthy(r) == r.k = "text" /\ Len(r.t) > 0

\* A mutant: the "<NoResult>" test is dropped.
PollUsableNoMarker(r) == Truthy(r)

\* if dov_result and "<NoResult>" not in dov_result
PollUsable(r) == Truthy(r) /\ ~Contains(r.t, "<NoResult>")

\* A mutant: the text of the exception is taken as the result.
PollCallValueMessage(r) == IF r.k = "exc" THEN RText(<<"error">>) ELSE r

\* try: dov_result = get_dov_result(...) except Exception: dov_result = ""
PollCallValue(r) == IF r.k = "exc" THEN RText(<<>>) ELSE r

PollInit ==
    /\ pollPc = "loop"
    /\ pollMax \in 0..MaxAttempts
    /\ pollScript \in [1..MaxAttempts -> Responses]
    /\ pollAttempt = 0
    /\ pollCalls = 0
    /\ pollResult = RNone
    /\ pollRet = RNone

\* for attempt in range(max_attempts): one more iteration, or the loop ends
\* and the sentinel is returned.
PollLoop ==
    /\ pollPc = "loop"
    /\ IF pollAttempt < pollMax
         THEN /\ pollPc' = "call"
              /\ UNCHANGED pollRet
         ELSE /\ pollPc' = "done"
              /\ pollRet' = PollTimeoutSentinel
    /\ UNCHANGED <<pollMax, pollScript, pollAttempt, pollCalls, pollResult>>
    /\ UNCHANGED <<pathVars, sysVars>>

PollCall ==
    /\ pollPc = "call"
    /\ pollCalls' = pollCalls + 1
    /\ pollResult' = PollCallValue(pollScript[pollCalls + 1])
    /\ pollPc' = "check"
    /\ UNCHANGED <<pollMax, pollScript, pollAttempt, pollRet>>
    /\ UNCHANGED <<pathVars, sysVars>>

PollCheck ==
    /\ pollPc = "check"
    /\ IF PollUsable(pollResult)
         THEN /\ pollPc' = "done"
              /\ pollRet' = pollResult
         ELSE /\ pollPc' = "sleep"
              /\ UNCHANGED pollRet
    /\ UNCHANGED <<pollMax, pollScript, pollAttempt, pollCalls, pollResult>>
    /\ UNCHANGED <<pathVars, sysVars>>

\* time.sleep(interval), then the next value of range(max_attempts)
PollSleep ==
    /\ pollPc = "sleep"
    /\ pollAttempt' = pollAttempt + 1
    /\ pollPc' = "loop"
    /\ UNCHANGED <<pollMax, pollScript, pollCalls, pollResult, pollRet>>
    /\ UNCHANGED <<pathVars, sysVars>>

(***************************************************************************)
(* normalize_path (db_access.py).  A path is a sequence of tokens: "/",    *)
(* "\\" (a backslash), " " (a blank), "uploads" (that word) and other      *)
(* name tokens.                                                            *)
(***************************************************************************)
MaxPathLen == 4

PathTokens == {"/", "\\", " ", "uploads", "a"}

\* str.replace("\\", "/")
ReplaceBackslash(p) == [i \in 1..Len(p) |-> IF p[i] = "\\" THEN "/" ELSE p[i]]

RECURSIVE LStrip(_, _)
\* str.lstrip(chars)
LStrip(p, chars) ==
    IF Len(p) > 0 /\ p[1] \in chars THEN LStrip(Tail(p), chars) ELSE p

RECURSIVE RStrip(_, _)
\* str.rstrip(chars)
RStrip(p, chars) ==
    IF Len(p) > 0 /\ p[Len(p)] \in chars
      THEN RStrip(SubSeq(p, 1, Len(p) - 1), chars)
      ELSE p

\* Python's whitespace, for str.strip()
PyWhitespace == {" ", "\t", "\n"}

\* str.strip()
Strip(p) == RStrip(LStrip(p, PyWhitespace), PyWhitespace)

RECURSIVE Basename(_)
\* os.path.basename: what follows the last "/"
Basename(p) ==
    IF Contains(p, "/") THEN Basename(Tail(p)) ELSE p

\* A mutant: the path under uploads/ is returned relative to that directory.
normalize_path_relative(path) ==
    IF IsNull(path) \/ Len(Val(path)) = 0
      THEN Null
      ELSE LET p == Strip(ReplaceBackslash(Val(path)))
           IN  IF StartsWith(p, <<"uploads", "/">>) \/ StartsWith(p, <<"/", "uploads", "/">>)
                 THEN Some(LStrip(LStrip(LStrip(p, {"/"}), {"uploads"}), {"/"}))
                 ELSE Some(<<"uploads", "/">> \o Basename(p))

normalize_path(path) ==
    IF IsNull(path) \/ Len(Val(path)) = 0
      THEN Null
      ELSE LET p == Strip(ReplaceBackslash(Val(path)))
           IN  IF StartsWith(p, <<"uploads", "/">>) \/ StartsWith(p, <<"/", "uploads", "/">>)
                 THEN Some(LStrip(p, {"/"}))
                 ELSE Some(<<"uploads", "/">> \o Basename(p))

PathInit ==
    /\ pathIn \in Nullable(SeqsUpTo(PathTokens, MaxPathLen))
    /\ pathOut = Null
    /\ pathOut2 = Null
    /\ pathPc = 0

NormalizeOnce ==
    /\ pathPc = 0
    /\ pathOut' = normalize_path(pathIn)
    /\ pathPc' = 1
    /\ UNCHANGED <<pathIn, pathOut2>>
    /\ UNCHANGED <<pollVars, sysVars>>

NormalizeTwice ==
    /\ pathPc = 1
    /\ pathOut2' = normalize_path(pathOut)
    /\ pathPc' = 2
    /\ UNCHANGED <<pathIn, pathOut>>
    /\ UNCHANGED <<pollVars, sysVars>>

(***************************************************************************)
(* The datastore (db_access.py).                                           *)
(* A timestamp text is a record: fmt is its form ("std" is                 *)
(* "%Y-%m-%d %H:%M:%S", "frac" has a fraction of a second, "iso" has a T   *)
(* between date and time, "bad" is any other text), day its calendar day   *)
(* (a day number in a calendar of 12 months of 30 days) and tod its time   *)
(* of day.  The columns details and email are carried like name and are    *)
(* left out.                                                               *)
(***************************************************************************)
Ts(fmt, day, tod) == [fmt |-> fmt, day |-> day, tod |-> tod]

Row(id, ts, cid, st, nm, idn, idp, sp) ==
    [id |-> id, timestamp |-> ts, client_id |-> cid, status |-> st, name |-> nm,
     id_number |-> idn, id_photo |-> idp, selfie_photo |-> sp]

\* SQLite's datetime(timestamp) as a sort key: NULL (the least value) for NULL
\* and for a text that is no date; the fraction is dropped.
DatetimeKey(ts) ==
    IF IsNull(ts) \/ Val(ts).fmt = "bad" THEN -1 ELSE Val(ts).day * 10 + Val(ts).tod

\* ORDER BY datetime(timestamp) DESC, id DESC
RowBefore(r1, r2) ==
    \/ DatetimeKey(r1.timestamp) > DatetimeKey(r2.timestamp)
    \/ DatetimeKey(r1.timestamp) = DatetimeKey(r2.timestamp) /\ r1.id > r2.id

RECURSIVE SortRows(_)
SortRows(rows) ==
    IF rows = {} THEN <<>>
    ELSE LET first == CHOOSE r \in rows : \A q \in rows \ {r} : RowBefore(r, q)
         IN  <<first>> \o SortRows(rows \ {first})

\* fetch_all_verifications: the rows in order, the photo fields normalised in
\* the returned dicts (the table is not changed).
fetch_all_verifications(table) ==
    LET sorted == SortRows(table)
    IN  [i \in 1..Len(sorted) |->
            [sorted[i] EXCEPT !.id_photo = normalize_path(@),
                              !.selfie_photo = normalize_path(@)]]

\* insert_verification: the INSERT, with both photo paths normalised.
insert_row(table, id, ts, cid, st, nm, idn, idp, sp) ==
    table \cup {Row(id, ts, cid, st, nm, idn, normalize_path(idp), normalize_path(sp))}

(***************************************************************************)
(* The audit log: a sequence of lines.  A line is [k, v, ts]: k is the     *)
(* text before the first ":" (or the whole line for a delimiter and ""     *)
(* for an empty line), v the text after it as tokens, ts the timestamp of  *)
(* a "Timestamp" line.                                                     *)
(***************************************************************************)
Line(k, v) == [k |-> k, v |-> v, ts |-> Null]

TsLine(ts) == [k |-> "Timestamp", v |-> <<>>, ts |-> Some(ts)]

\* "--- Verification Session ---\n"
SessionDelim == Line("--- Verification Session ---", <<>>)

\* "=" * 50 + "\n" and the empty line after it
Eq50 == Line("==================================================", <<>>)

Blank == Line("", <<>>)

RECURSIVE SplitOn(_, _, _)
\* str.split(delimiter) by lines: cur is the block being collected.
SplitOn(lines, delim, cur) ==
    IF Len(lines) = 0 THEN <<cur>>
    ELSE IF Len(lines) >= Len(delim) /\ SubSeq(lines, 1, Len(delim)) = delim
      THEN <<cur>> \o SplitOn(SubSeq(lines, Len(delim) + 1, Len(lines)), delim, <<>>)
      ELSE SplitOn(Tail(lines), delim, Append(cur, lines[1]))

\* "Timestamp:" in block, "ClientID:" in block: a substring test, which a line
\* of that key passes and so does a line whose value holds that text (the
\* token "ClientID" in a value stands for the text "ClientID:").
BlockMentions(block, key) ==
    \E i \in 1..Len(block) : block[i].k = key \/ Contains(block[i].v, key)

EmptySession ==
    [timestamp |-> Null, client_id |-> Null, status |-> Null, name |-> Null,
     id_number |-> Null, id_photo |-> Null, selfie_photo |-> Null]

\* One line of parse_session_block: the elif chain on line.startswith(prefix),
\* the value being line.split(prefix)[1].strip().
ParseLine(session, line) ==
    CASE line.k = "Timestamp" -> [session EXCEPT !.timestamp = line.ts]
      [] line.k = "ClientID" -> [session EXCEPT !.client_id = Some(Strip(line.v))]
      [] line.k = "Verification Status" -> [session EXCEPT !.status = Some(Strip(line.v))]
      [] line.k = "Name" -> [session EXCEPT !.name = Some(Strip(line.v))]
      [] line.k = "ID Number" -> [session EXCEPT !.id_number = Some(Strip(line.v))]
      [] line.k = "ConsumerIDPhoto" -> [session EXCEPT !.id_photo = Some(Strip(line.v))]
      [] line.k = "ConsumerCapturedPhoto" -> [session EXCEPT !.selfie_photo = Some(Strip(line.v))]
      [] OTHER -> session

RECURSIVE ParseLines(_, _)
ParseLines(session, block) ==
    IF Len(block) = 0 THEN session
    ELSE ParseLines(ParseLine(session, block[1]), Tail(block))

parse_session_block(block) == ParseLines(EmptySession, block)

(***************************************************************************)
(* Reconciliation (log_to_db.py).                                          *)
(***************************************************************************)
\* The row of insert_into_db(session), by insert_verification.
InsertSession(table, id, session) ==
    insert_row(table, id, session.timestamp, session.client_id, session.status,
               session.name, session.id_number, session.id_photo, session.selfie_photo)

\* Python's == on the timestamp and client_id of a fetched row and a session
\* (None == None is True).
SamePair(r, session) ==
    r.timestamp = session.timestamp /\ r.client_id = session.client_id

\* A mutant: the existence test is made with SQL's =, never true of NULL.
SessionExistsSql(table, session) ==
    \E r \in table : /\ SamePair(r, session)
                      /\ ~IsNull(session.timestamp) /\ ~IsNull(session.client_id)

\* exists = any(... for log in db_access.fetch_all_verifications())
SessionExists(table, session) == \E r \in table : SamePair(r, session)

\* if "Timestamp:" in block and "ClientID:" in block
IsSessionBlock(block) ==
    BlockMentions(block, "Timestamp") /\ BlockMentions(block, "ClientID")

RECURSIVE ProcessBlocks(_, _)
\* The loop of process_log_file over the blocks; st is [table, id].
ProcessBlocks(st, blocks) ==
    IF Len(blocks) = 0 THEN st
    ELSE LET b == blocks[1]
             session == parse_session_block(b)
             st2 == IF IsSessionBlock(b) /\ ~SessionExists(st.table, session)
                      THEN [table |-> InsertSession(st.table, st.id, session),
                            id |-> st.id + 1]
                      ELSE st
         IN  ProcessBlocks(st2, Tail(blocks))

\* content.split("--- Verification Session ---")
SessionBlocks(content) == SplitOn(content, <<SessionDelim>>, <<>>)

process_log_file(table, id, content) ==
    ProcessBlocks([table |-> table, id |-> id], SessionBlocks(content))

\* Python truthiness of a str | None, and a or b.
TruthyStr(o) == ~IsNull(o) /\ Len(Val(o)) > 0

PyOr(a, b) == IF TruthyStr(a) THEN a ELSE b

\* UPDATE verifications SET id_photo=?, selfie_photo=? WHERE timestamp=? AND
\* client_id=?: SQL's = is never true of NULL.
UpdatePhotos(table, idp, sp, ts, cid) ==
    {IF ~IsNull(ts) /\ ~IsNull(cid) /\ r.timestamp = ts /\ r.client_id = cid
       THEN [r EXCEPT !.id_photo = idp, !.selfie_photo = sp]
       ELSE r : r \in table}

RECURSIVE RetrofillRows(_, _, _)
\* The inner loop of retrofill_photos over logs, the rows fetched at its start.
RetrofillRows(table, session, logs) ==
    IF Len(logs) = 0 THEN table
    ELSE LET l == logs[1]
             new_id_photo == PyOr(l.id_photo, session.id_photo)
             new_selfie_photo == PyOr(l.selfie_photo, session.selfie_photo)
             t2 == IF SamePair(l, session)
                      /\ (new_id_photo # l.id_photo \/ new_selfie_photo # l.selfie_photo)
                     THEN UpdatePhotos(table, new_id_photo, new_selfie_photo,
                                       l.timestamp, l.client_id)
                     ELSE table
         IN  RetrofillRows(t2, session, Tail(logs))

RECURSIVE RetrofillBlocks(_, _, _)
RetrofillBlocks(table, blocks, logs) ==
    IF Len(blocks) = 0 THEN table
    ELSE LET t2 == IF IsSessionBlock(blocks[1])
                     THEN RetrofillRows(table, parse_session_block(blocks[1]), logs)
                     ELSE table
         IN  RetrofillBlocks(t2, Tail(blocks), logs)

retrofill_photos(table, content) ==
    RetrofillBlocks(table, SessionBlocks(content), fetch_all_verifications(table))

(***************************************************************************)
(* The audit-log writer and the live insert (xds_main.py).                 *)
(* A summary dict is a sequence of [k, v] pairs in insertion order.        *)
(***************************************************************************)
Pair(k, v) == [k |-> k, v |-> v]

\* dict.get(key): the value, or None.
DictGet(d, key) ==
    IF \E i \in 1..Len(d) : d[i].k = key
      THEN Some(d[CHOOSE i \in 1..Len(d) : d[i].k = key].v)
      ELSE Null

\* dict.get(key, default)
DictGetOr(d, key, default) == IF IsNull(DictGet(d, key)) THEN default ELSE Val(DictGet(d, key))

\* The block log_verification_result appends; summary is Null when
\* summary_dict is no dict.
WriterBlock(now, enquiry_id, enquiry_result_id, summary, status) ==
    LET id_no == IF IsNull(summary) THEN Null
                 ELSE PyOr(PyOr(DictGet(Val(summary), "ID Number"),
                                DictGet(Val(summary), "id_number")), Some(<<>>))
        idLine == IF TruthyStr(id_no) THEN <<Line("ID Number", Val(id_no))>> ELSE <<>>
        items == IF IsNull(summary) THEN <<>>
                 ELSE [i \in 1..Len(Val(summary)) |->
                          Line(Val(summary)[i].k, Val(summary)[i].v)]
    IN  <<TsLine(now), Line("Enquiry ID", <<enquiry_id>>),
          Line("Enquiry Result ID", <<enquiry_result_id>>), Line("Status", status)>>
        \o idLine \o items \o <<SessionDelim>>

\* The file save_photo_from_base64 writes under UPLOADS_DIR, relative to
\* BASE_DIR; the value it returns is the same text.
PhotoFile(dir, stem, enquiry_id) == <<"uploads", "/", dir, "/", stem, enquiry_id>>

(***************************************************************************)
(* Deleting (db_access.py, dashboard_app.py).                              *)
(***************************************************************************)
\* SQLite's TRIM(X): blanks are removed at both ends, other whitespace stays.
SqlTrim(s) == RStrip(LStrip(s, {" "}), {" "})

\* A mutant: the id_number column is compared as stored.
IdNumberMatchesExact(r, id_number) ==
    ~IsNull(r.id_number) /\ Val(r.id_number) = id_number

\* WHERE TRIM(id_number) = ? with the parameter id_number.strip()
IdNumberMatches(r, id_number) ==
    ~IsNull(r.id_number) /\ SqlTrim(Val(r.id_number)) = Strip(id_number)

\* os.path.exists(f) / os.remove(f) of a stored path f: the file of BASE_DIR it
\* names, or Null when it names none: a relative path is resolved against the
\* working directory, an absolute one lies outside BASE_DIR.
ResolveStored(f, dir) ==
    IF TruthyStr(f) /\ dir = "base" /\ Val(f)[1] # "/" THEN f ELSE Null

\* The files removed for one datastore row by delete_verification and
\* delete_by_id_number.
RowFilesRemoved(r, dir, disk) ==
    {Val(f) : f \in {g \in {ResolveStored(r.id_photo, dir), ResolveStored(r.selfie_photo, dir)} :
                        ~IsNull(g) /\ Val(g) \in disk}}

\* f"ID Number: {id_number}" in b: a substring test on the block's text, which
\* a line "ID Number: v" passes when id_number is a prefix of v.
BlockHasIdNumber(b, id_number) ==
    \E i \in 1..Len(b) : b[i].k = "ID Number" /\ StartsWith(b[i].v, id_number)

\* not b.strip()
BlockIsBlank(b) == \A i \in 1..Len(b) : b[i] = Blank

\* content.split("=" * 50 + "\n\n")
PruneBlocks(content) == SplitOn(content, <<Eq50, Blank>>, <<>>)

RECURSIVE PruneKept(_, _)
\* new_content: every kept block followed by the delimiter
PruneKept(blocks, id_number) ==
    IF Len(blocks) = 0 THEN <<>>
    ELSE (IF BlockIsBlank(blocks[1]) \/ BlockHasIdNumber(blocks[1], id_number)
            THEN <<>>
            ELSE blocks[1] \o <<Eq50, Blank>>)
         \o PruneKept(Tail(blocks), id_number)

\* removed: the number of blocks dropped for the id number
PruneRemoved(blocks, id_number) ==
    Cardinality({i \in 1..Len(blocks) :
                    ~BlockIsBlank(blocks[i]) /\ BlockHasIdNumber(blocks[i], id_number)})

\* A mutant: the blocks of the id number are counted and kept.
delete_audit_blocks_keep(content, id_number) ==
    [content |-> content, removed |-> PruneRemoved(PruneBlocks(content), id_number)]

\* _delete_audit_blocks_by_id_number: the new content of the log and the count.
delete_audit_blocks(content, id_number) ==
    [content |-> PruneKept(PruneBlocks(content), id_number),
     removed |-> PruneRemoved(PruneBlocks(content), id_number)]

\* db_access.delete_by_id_number: the new table, disk and log, and the value
\* returned.
delete_by_id_number(table, disk, content, dir, id_number) ==
    LET rows == {r \in table : IdNumberMatches(r, id_number)}
        gone == UNION {RowFilesRemoved(r, dir, disk) : r \in rows}
        pruned == delete_audit_blocks(content, id_number)
    IN  [table |-> table \ rows, disk |-> disk \ gone, content |-> pruned.content,
         out |-> [deleted |-> Cardinality(rows), removed |-> pruned.removed,
                  ret |-> (Cardinality(rows) > 0 \/ pruned.removed > 0)]]

\* _delete_audit_blocks_by_id_number when the log cannot be handled: "read"
\* is open(path, "r") or f.read() raising, "write" is f.write raising after
\* open(path, "w") emptied the file; the except clause returns 0.
delete_audit_blocks_failing(content, id_number, log_fault) ==
    CASE log_fault = "read" -> [content |-> content, removed |-> 0]
      [] log_fault = "write" -> [content |-> <<>>, removed |-> 0]
      [] OTHER -> delete_audit_blocks(content, id_number)

\* A mutant: a failing os.remove ends the call before the DELETE.
delete_by_id_number_abort(table, disk, content, dir, id_number, rm_fails, log_fault) ==
    LET rows == {r \in table : IdNumberMatches(r, id_number)}
        gone == UNION {RowFilesRemoved(r, dir, disk) : r \in rows}
        pruned == delete_audit_blocks_failing(content, id_number, log_fault)
    IN  IF rm_fails /\ gone # {}
          THEN [table |-> table, disk |-> disk, content |-> content,
                out |-> [deleted |-> 0, removed |-> 0, ret |-> FALSE, raised |-> TRUE]]
          ELSE [table |-> table \ rows, disk |-> disk \ gone, content |-> pruned.content,
                out |-> [deleted |-> Cardinality(rows), removed |-> pruned.removed,
                         ret |-> (Cardinality(rows) > 0 \/ pruned.removed > 0),
                         raised |-> FALSE]]

\* db_access.delete_by_id_number when os.remove raises for every file
\* (rm_fails) or the audit log cannot be handled (log_fault): both are caught.
delete_by_id_number_failing(table, disk, content, dir, id_number, rm_fails, log_fault) ==
    LET rows == {r \in table : IdNumberMatches(r, id_number)}
        gone == IF rm_fails THEN {} ELSE UNION {RowFilesRemoved(r, dir, disk) : r \in rows}
        pruned == delete_audit_blocks_failing(content, id_number, log_fault)
    IN  [table |-> table \ rows, disk |-> disk \ gone, content |-> pruned.content,
         out |-> [deleted |-> Cardinality(rows), removed |-> pruned.removed,
                  ret |-> (Cardinality(rows) > 0 \/ pruned.removed > 0),
                  raised |-> FALSE]]

\* delete_by_id_number_route: the files it removes itself, before it calls
\* db_access.delete_by_id_number: os.path.join(UPLOAD_FOLDER, basename(path)) for
\* the fetched (normalised) photo paths of the rows with that id_number.
RouteFilesRemoved(table, disk, id_number) ==
    LET logs == fetch_all_verifications(table)
        paths == UNION {{logs[i].id_photo, logs[i].selfie_photo} :
                          i \in {j \in 1..Len(logs) : logs[j].id_number = Some(id_number)}}
    IN  {f \in {<<"uploads", "/">> \o Basename(Val(q)) : q \in {q2 \in paths : TruthyStr(q2)}} :
            f \in disk}

(***************************************************************************)
(* The dashboard (dashboard_app.py, index).                                *)
(***************************************************************************)
\* datetime.now() for each value of the clock: two times of day per day.
ClockTs(c) == Ts("std", c \div 2, c % 2)

\* The calendar: 12 months of 30 days, day 0 being 1 January.
YearOf(day) == 2025 + (day \div 360)

MonthOf(day) == ((day % 360) \div 30) + 1

\* str.lower() of one token.
LowerTok(t) ==
    CASE t = "Success" -> "success"
      [] t = "SUCCESS" -> "success"
      [] t = "Failed" -> "failed"
      [] t = "All" -> "all"
      [] t = "ALL" -> "all"
      [] t = "Ann" -> "ann"
      [] OTHER -> t

\* str.lower()
Lower(s) == [i \in 1..Len(s) |-> LowerTok(s[i])]

\* a in b, for two texts
IsInfix(a, b) ==
    \E i \in 0..(Len(b) - Len(a)) : SubSeq(b, i + 1, i + Len(a)) = a

\* datetime.strptime(v["timestamp"], "%Y-%m-%d %H:%M:%S") raises for None and
\* for every text not of that form.
Strptime(ts) == IF ~IsNull(ts) /\ Val(ts).fmt = "std" THEN ts ELSE Null

Idx(logs) == 1..Len(logs)

\* The elements of logs at the indices of keep, in order.
KeepIdx(logs, keep) ==
    LET F[i \in 0..Len(logs)] ==
            IF i = 0 THEN <<>>
            ELSE IF i \in keep THEN Append(F[i - 1], logs[i]) ELSE F[i - 1]
    IN  F[Len(logs)]

\* A list comprehension whose element expression raises for the rows at the
\* indices of raises: Null for the exception, else the filtered list.
Comprehension(logs, raises, keep) ==
    IF raises # {} THEN Null ELSE Some(KeepIdx(logs, keep))

\* The same inside try: ... except Exception: pass
TryComprehension(logs, raises, keep) ==
    IF raises # {} THEN logs ELSE KeepIdx(logs, keep)

\* v.get("status", "").lower() == status.lower()
StatusKeep(v, status) == ~IsNull(v.status) /\ Lower(Val(v.status)) = Lower(status)

\* if status.lower() != "all": logs = [v for v in logs if ...]: None.lower()
\* raises.
FilterStatus(logs, status) ==
    IF Lower(status) = <<"all">> THEN Some(logs)
    ELSE Comprehension(logs, {i \in Idx(logs) : IsNull(logs[i].status)},
                       {i \in Idx(logs) : StatusKeep(logs[i], status)})

\* if name: logs = [v for v in logs if name.lower() in v.get("name", "").lower()]
FilterName(logs, name) ==
    IF Len(name) = 0 THEN Some(logs)
    ELSE Comprehension(logs, {i \in Idx(logs) : IsNull(logs[i].name)},
                       {i \in Idx(logs) : /\ ~IsNull(logs[i].name)
                                          /\ IsInfix(Lower(name), Lower(Val(logs[i].name)))})

\* if id_number: logs = [v for v in logs if v.get("id_number", "") == id_number]
FilterIdNumber(logs, id_number) ==
    IF Len(id_number) = 0 THEN Some(logs)
    ELSE Some(KeepIdx(logs, {i \in Idx(logs) : logs[i].id_number = Some(id_number)}))

\* The rows whose timestamp strptime refuses.
StrptimeRaises(logs) == {i \in Idx(logs) : IsNull(Strptime(logs[i].timestamp))}

\* if current_filters["month"] != 0: ... strptime(...).month == month
FilterMonth(logs, month) ==
    IF month = 0 THEN Some(logs)
    ELSE Comprehension(logs, StrptimeRaises(logs),
                       {i \in Idx(logs) \ StrptimeRaises(logs) :
                           MonthOf(Val(logs[i].timestamp).day) = month})

\* if current_filters["year"]: ... strptime(...).year == year
FilterYear(logs, year) ==
    IF year = 0 THEN Some(logs)
    ELSE Comprehension(logs, StrptimeRaises(logs),
                       {i \in Idx(logs) \ StrptimeRaises(logs) :
                           YearOf(Val(logs[i].timestamp).day) = year})

\* if date_from: try: df = strptime(date_from, "%Y-%m-%d"); logs = [... >= df]
\* date_from is Null for "", [ok |-> FALSE] for a text that is no date.
FilterDateFrom(logs, date_from) ==
    IF IsNull(date_from) \/ ~Val(date_from).ok THEN logs
    ELSE TryComprehension(logs, StrptimeRaises(logs),
                          {i \in Idx(logs) \ StrptimeRaises(logs) :
                              Val(logs[i].timestamp).day >= Val(date_from).day})

\* if date_to: try: dt = strptime(date_to, "%Y-%m-%d"); logs = [... <= dt]:
\* dt is the midnight that starts the day.
FilterDateTo(logs, date_to) ==
    IF IsNull(date_to) \/ ~Val(date_to).ok THEN logs
    ELSE TryComprehension(logs, StrptimeRaises(logs),
                          {i \in Idx(logs) \ StrptimeRaises(logs) :
                              \/ Val(logs[i].timestamp).day < Val(date_to).day
                              \/ /\ Val(logs[i].timestamp).day = Val(date_to).day
                                 /\ Val(logs[i].timestamp).tod = 0})

\* The statistics: .lower() of every listed status, and max() of the listed
\* timestamps, which raises when it compares None.
StatsRaise(logs) ==
    \/ \E i \in Idx(logs) : IsNull(logs[i].status)
    \/ Len(logs) >= 2 /\ \E i \in Idx(logs) : IsNull(logs[i].timestamp)

\* A date parameter: "" (absent), a date, or a text that is no date.
NoDate == Null

Date(day) == Some([ok |-> TRUE, day |-> day])

BadDate == Some([ok |-> FALSE, day |-> 0])

Filters(status, name, id_number, month, year, date_from, date_to) ==
    [status |-> status, name |-> name, id_number |-> id_number, month |-> month,
     year |-> year, date_from |-> date_from, date_to |-> date_to]

\* index(): Null when the request ends in an exception, else the rows listed.
\* f.year is the year after defaulting (the current year when none is given).
index(table, f) ==
    LET l0 == fetch_all_verifications(table)
        l1 == FilterStatus(l0, f.status)
        l2 == IF IsNull(l1) THEN Null ELSE FilterName(Val(l1), Strip(f.name))
        l3 == IF IsNull(l2) THEN Null ELSE FilterIdNumber(Val(l2), Strip(f.id_number))
        l4 == IF IsNull(l3) THEN Null ELSE FilterMonth(Val(l3), f.month)
        l5 == IF IsNull(l4) THEN Null ELSE FilterYear(Val(l4), f.year)
    IN  IF IsNull(l5) THEN Null
        ELSE LET l7 == FilterDateTo(FilterDateFrom(Val(l5), f.date_from), f.date_to)
             IN  IF StatsRaise(l7) THEN Null ELSE Some(l7)

(***************************************************************************)
(* The operations, as actions.  op records the operation of the last step. *)
(***************************************************************************)
MaxId == 2

MaxLogLines == 16

MaxClock == 1

Op(name, arg, ret) == [name |-> name, arg |-> arg, ret |-> ret]

\* The polling loop and the path check take no part in a step of the system.
NoPollPath == UNCHANGED <<pollVars, pathVars>>

Others == NoPollPath /\ UNCHANGED <<flowVars, schema, raceVars>>

PollIdle ==
    /\ pollPc = "idle" /\ pollMax = 0 /\ pollScript = <<>> /\ pollAttempt = 0
    /\ pollCalls = 0 /\ pollResult = RNone /\ pollRet = RNone

PathIdle == pathIn = Null /\ pathOut = Null /\ pathOut2 = Null /\ pathPc = 3

(***************************************************************************)
(* The schema checks at startup (db_access.py, xds_main.py, log_to_db.py). *)
(* schema.file is "missing", "garbage" (a file that is no database) or     *)
(* "db"; schema.table tells whether the table verifications exists and     *)
(* schema.cols which of the two photo columns it has.  A row of a table    *)
(* without a photo column carries Null in that field.                      *)
(***************************************************************************)
PhotoCols == {"id_photo", "selfie_photo"}

Schema(file, table, cols) == [file |-> file, table |-> table, cols |-> cols]

SchemaComplete == Schema("db", TRUE, PhotoCols)

\* The script of xds_main has not started.
NoLocals == [ticket |-> Null, enquiry_id |-> Null, enquiry_result_id |-> Null]

FlowIdle == flowPc = "idle" /\ flowCalls = <<>> /\ flowLocals = NoLocals

\* No delete_by_id_number and no log_verification_result is under way.
NoPrune == [id_number |-> Null, deleted_count |-> 0, content |-> Null]

RaceIdle ==
    /\ prunePc = "idle" /\ pruneLocals = NoPrune
    /\ writerPc = "idle" /\ writerBlock = <<>>

\* The state after the imports: ensure_database made the empty table, the
\* audit log holds what was written to it before (legacy), no photo is saved.
SysInit(legacy, dirs) ==
    /\ db = {}
    /\ nextId = 1
    /\ log \in legacy
    /\ files = {}
    /\ cwd \in dirs
    /\ clock = 0
    /\ op = Op("init", Null, Null)
    /\ FlowIdle
    /\ schema = SchemaComplete
    /\ RaceIdle

SysIdle == SysInit({<<>>}, {"base"})

\* Time passes.
Tick ==
    /\ clock < MaxClock
    /\ clock' = clock + 1
    /\ op' = Op("tick", Null, Null)
    /\ Others
    /\ UNCHANGED <<db, nextId, log, files, cwd>>

\* insert_verification_to_db / insert_verification_with_xml: the photos are
\* saved under UPLOADS_DIR, then the row is inserted.
LiveInsert(enquiry_id, summary, id_photo_data, selfie_photo_data) ==
    LET id_photo_path == IF id_photo_data
                           THEN Some(PhotoFile("ids", "id_", enquiry_id)) ELSE Null
        selfie_photo_path == IF selfie_photo_data
                               THEN Some(PhotoFile("selfies", "selfie_", enquiry_id)) ELSE Null
    IN  /\ nextId <= MaxId
        /\ files' = files \cup {Val(f) : f \in {g \in {id_photo_path, selfie_photo_path} : ~IsNull(g)}}
        /\ db' = insert_row(db, nextId, Some(ClockTs(clock)),
                            Some(DictGetOr(summary, "Client ID", <<enquiry_id>>)),
                            Some(DictGetOr(summary, "Status", <<"Success">>)),
                            Some(DictGetOr(summary, "Name", <<"N/A">>)),
                            Some(DictGetOr(summary, "ID Number", <<"N/A">>)),
                            id_photo_path, selfie_photo_path)
        /\ nextId' = nextId + 1
        /\ op' = Op("insert_verification_to_db", enquiry_id, nextId)
        /\ Others
        /\ UNCHANGED <<log, cwd, clock>>

\* log_verification_result: one block is appended to LOG_FILE of xds_main,
\* an absolute path.
LogVerificationResult(enquiry_id, enquiry_result_id, summary, status) ==
    LET block == WriterBlock(ClockTs(clock), enquiry_id, enquiry_result_id, summary, status)
    IN  /\ Len(log) + Len(block) <= MaxLogLines
        /\ log' = log \o block
        /\ op' = Op("log_verification_result", block, Null)
        /\ Others
        /\ UNCHANGED <<db, nextId, files, cwd, clock>>

\* log_to_db.process_log_file: LOG_FILE of log_to_db is relative to the
\* working directory; away from BASE_DIR open() raises.
ProcessLogFile ==
    IF cwd = "base"
      THEN LET st == process_log_file(db, nextId, log)
           IN  /\ st.id <= MaxId + 1
               /\ db' = st.table
               /\ nextId' = st.id
               /\ op' = Op("process_log_file", Null, st.id - nextId)
               /\ Others
               /\ UNCHANGED <<log, files, cwd, clock>>
      ELSE /\ op' = Op("process_log_file", Null, -1)
           /\ Others
           /\ UNCHANGED <<db, nextId, log, files, cwd, clock>>

\* log_to_db.retrofill_photos, with the same relative LOG_FILE.
RetrofillPhotos ==
    IF cwd = "base"
      THEN /\ db' = retrofill_photos(db, log)
           /\ op' = Op("retrofill_photos", Null, 0)
           /\ Others
           /\ UNCHANGED <<nextId, log, files, cwd, clock>>
      ELSE /\ op' = Op("retrofill_photos", Null, -1)
           /\ Others
           /\ UNCHANGED <<db, nextId, log, files, cwd, clock>>

\* db_access.delete_verification(rec_id)
DeleteVerification(rec_id) ==
    LET rows == {r \in db : r.id = rec_id}
    IN  /\ files' = files \ UNION {RowFilesRemoved(r, cwd, files) : r \in rows}
        /\ db' = db \ rows
        /\ op' = Op("delete_verification", rec_id, Null)
        /\ Others
        /\ UNCHANGED <<nextId, log, cwd, clock>>

\* db_access.delete_by_id_number(id_number)
DeleteByIdNumber(id_number) ==
    LET d == delete_by_id_number(db, files, log, cwd, id_number)
    IN  /\ db' = d.table
        /\ files' = d.disk
        /\ log' = d.content
        /\ op' = Op("delete_by_id_number", id_number, d.out)
        /\ Others
        /\ UNCHANGED <<nextId, cwd, clock>>

\* db_access.delete_by_id_number(id_number) in an environment where removing
\* files or handling the audit log fails.
DeleteByIdNumberFailing(id_number, rm_fails, log_fault) ==
    LET d == delete_by_id_number_failing(db, files, log, cwd, id_number, rm_fails, log_fault)
    IN  /\ db' = d.table
        /\ files' = d.disk
        /\ log' = d.content
        /\ op' = Op("delete_by_id_number_failing",
                    [id_number |-> id_number, rm_fails |-> rm_fails, log_fault |-> log_fault],
                    d.out)
        /\ Others
        /\ UNCHANGED <<nextId, cwd, clock>>

\* dashboard_app.delete_by_id_number_route(id_number): its own removal of
\* photos, then db_access.delete_by_id_number; the response is ok.
DeleteByIdNumberRoute(id_number) ==
    LET disk1 == files \ RouteFilesRemoved(db, files, id_number)
        d == delete_by_id_number(db, disk1, log, cwd, id_number)
    IN  /\ db' = d.table
        /\ files' = d.disk
        /\ log' = d.content
        /\ op' = Op("delete_by_id_number_route", id_number, d.out)
        /\ Others
        /\ UNCHANGED <<nextId, cwd, clock>>

\* GET /admin/dashboard with the filters f; year is the parameter (0 for "0",
\* -1 for none or no number, which index replaces by the current year).
Index(f) ==
    LET year == IF f.year = -1 THEN YearOf(ClockTs(clock).day) ELSE f.year
    IN  /\ op' = Op("index", f, index(db, [f EXCEPT !.year = year]))
        /\ Others
        /\ UNCHANGED <<db, nextId, log, files, cwd, clock>>

(***************************************************************************)
(* The schema functions.                                                   *)
(***************************************************************************)
\* The outcome of a schema function: the schema it leaves and whether it
\* raised.
SchemaOut(sch, raised) == [schema |-> sch, raised |-> raised]

\* ensure_database (db_access and xds_main have the same text): the check
\* asks for recreation when the file is missing, the table is missing or the
\* query raises DatabaseError; the recreation connects to the same file and
\* executes CREATE TABLE IF NOT EXISTS, which raises again on a file that is
\* no database.
ensure_database(sch) ==
    LET recreate == sch.file = "missing" \/ sch.file = "garbage" \/ ~sch.table
    IN  IF ~recreate THEN SchemaOut(sch, FALSE)
        ELSE IF sch.file = "garbage" THEN SchemaOut(sch, TRUE)
        ELSE SchemaOut(SchemaComplete, FALSE)

\* A mutant: only the id_photo column is added.
ensure_db_columns_one(sch) ==
    IF sch.file = "garbage" THEN SchemaOut(sch, TRUE)
    ELSE IF sch.file = "missing" \/ ~sch.table THEN SchemaOut(Schema("db", FALSE, {}), TRUE)
    ELSE SchemaOut([sch EXCEPT !.cols = @ \cup {"id_photo"}], FALSE)

\* ensure_db_columns (db_access and log_to_db): connect creates a missing
\* file; PRAGMA table_info raises on a file that is no database and lists
\* nothing for a missing table, for which ALTER TABLE then raises; else the
\* missing photo columns are added.
ensure_db_columns(sch) ==
    IF sch.file = "garbage" THEN SchemaOut(sch, TRUE)
    ELSE IF sch.file = "missing" \/ ~sch.table THEN SchemaOut(Schema("db", FALSE, {}), TRUE)
    ELSE SchemaOut([sch EXCEPT !.cols = PhotoCols], FALSE)

\* migrate_database_schema (xds_main): the same steps inside try/except
\* Exception, which logs and goes on.
migrate_database_schema(sch) == SchemaOut(ensure_db_columns(sch).schema, FALSE)

\* The import of db_access: ensure_database() then ensure_db_columns().
db_access_import(sch) ==
    LET first == ensure_database(sch)
    IN  IF first.raised THEN first ELSE ensure_db_columns(first.schema)

\* The import of xds_main after that of db_access: ensure_database() then
\* migrate_database_schema().
xds_main_import(sch) ==
    LET first == ensure_database(sch)
    IN  IF first.raised THEN first ELSE migrate_database_schema(first.schema)

SchemaFrame ==
    NoPollPath /\ UNCHANGED <<db, nextId, log, files, cwd, clock, flowVars, raceVars>>

EnsureDatabase ==
    /\ schema' = ensure_database(schema).schema
    /\ op' = Op("ensure_database", schema, ensure_database(schema).raised)
    /\ SchemaFrame

EnsureDbColumns ==
    /\ schema' = ensure_db_columns(schema).schema
    /\ op' = Op("ensure_db_columns", schema, ensure_db_columns(schema).raised)
    /\ SchemaFrame

MigrateDatabaseSchema ==
    /\ schema' = migrate_database_schema(schema).schema
    /\ op' = Op("migrate_database_schema", schema, migrate_database_schema(schema).raised)
    /\ SchemaFrame

\* A process starts and imports db_access.
Startup ==
    /\ schema' = db_access_import(schema).schema
    /\ op' = Op("startup", schema, db_access_import(schema).raised)
    /\ SchemaFrame

\* A process starts and imports xds_main (which imports db_access first).
StartupMain ==
    LET first == db_access_import(schema)
        out == IF first.raised THEN first ELSE xds_main_import(first.schema)
    IN  /\ schema' = out.schema
        /\ op' = Op("startup_main", schema, out.raised)
        /\ SchemaFrame

(***************************************************************************)
(* The client verification endpoint (dashboard_app.py).                    *)
(***************************************************************************)
\* The names the module db_access defines.
DbAccessNames ==
    {"BASE_DIR", "DB_FILE", "LOG_FILE", "normalize_path",
     "_delete_audit_blocks_by_id_number", "ensure_database", "ensure_db_columns",
     "dict_factory", "get_conn", "insert_verification", "fetch_all_verifications",
     "delete_verification", "delete_by_id_number"}

\* jsonify({"success": ..., "message": ...})
Json(success, message) == [k |-> "json", success |-> success, message |-> message]

\* A request that ends in an exception no handler catches.
Unhandled(exc) == [k |-> "error", exc |-> exc]

\* client_verification for a POST with the JSON body data; eligible is what
\* the eligibility check would answer.
client_verification(data, eligible) ==
    IF "check_client_verification" \notin DbAccessNames
      THEN Unhandled("AttributeError")
      ELSE IF eligible
             THEN Json(TRUE, "Verification started successfully.")
             ELSE Json(FALSE, "ID or cellphone not recognized.")

\* POST /verify
ClientVerification(id_number, cellphone) ==
    \E eligible \in BOOLEAN :
        /\ op' = Op("client_verification", [id_number |-> id_number, cellphone |-> cellphone],
                    client_verification([id_number |-> id_number, cellphone |-> cellphone],
                                        eligible))
        /\ Others
        /\ UNCHANGED <<db, nextId, log, files, cwd, clock>>

(***************************************************************************)
(* The main verification flow (xds_main.py, __main__).                     *)
(***************************************************************************)
\* The id number the script verifies ("9104036161082" in the source).
FlowIdNumber == <<"5">>

\* timedelta(days=90)
RecentDays == 90

\* ORDER BY timestamp DESC compares the stored texts: NULL is the least value,
\* a date sorts by its day, then " " before "T", then by its time of day, a
\* fraction after the same text without it; a text that is no date is taken
\* to begin with a letter (as "N/A" does), which sorts after every digit.
TextKey(ts) ==
    IF IsNull(ts) THEN <<0, 0>>
    ELSE IF Val(ts).fmt = "bad" THEN <<2, 0>>
    ELSE <<1, Val(ts).day * 8 + (IF Val(ts).fmt = "iso" THEN 4 ELSE 0)
                + Val(ts).tod * 2 + (IF Val(ts).fmt = "frac" THEN 1 ELSE 0)>>

TextAfter(a, b) ==
    \/ TextKey(a)[1] > TextKey(b)[1]
    \/ TextKey(a)[1] = TextKey(b)[1] /\ TextKey(a)[2] >= TextKey(b)[2]

\* SELECT timestamp FROM verifications WHERE id_number = ? ORDER BY timestamp
\* DESC LIMIT 1: Null when no row matches, else Some(timestamp).
LastTimestamp(table, id_number) ==
    LET rows == {r \in table : r.id_number = Some(id_number)}
    IN  IF rows = {} THEN Null
        ELSE Some((CHOOSE r \in rows : \A q \in rows : TextAfter(r.timestamp, q.timestamp)).timestamp)

\* last_verified >= datetime.now() - timedelta(days=90), for a timestamp one of
\* the three formats parses.
NotOlderThan(ts, now, days) ==
    \/ ts.day > now.day - days
    \/ ts.day = now.day - days /\ ts.tod >= now.tod

\* verified_within_last_3_months(id_number), now being datetime.now()
verified_within_last_3_months(table, id_number, now) ==
    LET row == LastTimestamp(table, id_number)
    IN  /\ ~IsNull(row)
        /\ ~IsNull(Val(row))
        /\ Val(Val(row)).fmt \in {"std", "frac", "iso"}
        /\ NotOlderThan(Val(Val(row)), now, RecentDays)

\* One external call: its name, its arguments and what it answered.
Call(name, args, resp) == [name |-> name, args |-> args, resp |-> resp]

\* A call of the HTTP layer raises (raise_for_status, a parse error).
Raised == [k |-> "exc"]

Answer(v) == [k |-> "ok", v |-> v]

\* What login_to_xds and request_facial_verification return: the text of the
\* result node, "" when there is none.
TicketAnswers == {Raised, Answer(<<>>), Answer(<<"T1">>)}

\* What is_ticket_valid returns.
ValidAnswers == {Raised, Answer(<<"true">>)}

\* What match_consumer returns: the dict with an error, or with the two
\* identifiers as findtext gives them (None, "" or a text).
MatchError == [enquiry_id |-> Null, enquiry_result_id |-> Null]

MatchAnswers ==
    {Raised, Answer(MatchError)} \cup
    {Answer([enquiry_id |-> e, enquiry_result_id |-> r]) :
        e \in {Null, Some(<<>>), Some(<<"E1">>)}, r \in {Null, Some(<<"R1">>)}}

\* A mutant: one identifier is enough.
HasEitherId(enquiry_id, enquiry_result_id) ==
    TruthyStr(enquiry_id) \/ TruthyStr(enquiry_result_id)

\* enquiry_id and enquiry_result_id
HasEnquiryIds(enquiry_id, enquiry_result_id) ==
    TruthyStr(enquiry_id) /\ TruthyStr(enquiry_result_id)

FlowFrame ==
    NoPollPath /\ UNCHANGED <<db, nextId, log, files, cwd, clock, schema, raceVars>>

\* ticket = login_to_xds()
FlowLogin(resp) ==
    /\ flowPc = "idle"
    /\ flowCalls' = Append(flowCalls, Call("login_to_xds", <<>>, resp))
    /\ IF resp = Raised
         THEN flowPc' = "crashed" /\ UNCHANGED flowLocals
         ELSE /\ flowPc' = "validate"
              /\ flowLocals' = [flowLocals EXCEPT !.ticket = Some(resp.v)]
    /\ op' = Op("login_to_xds", Null, Null)
    /\ FlowFrame

\* validation_result = is_ticket_valid(ticket)
FlowValidate(resp) ==
    /\ flowPc = "validate"
    /\ flowCalls' = Append(flowCalls, Call("is_ticket_valid", <<flowLocals.ticket>>, resp))
    /\ flowPc' = IF resp = Raised THEN "crashed" ELSE "check"
    /\ op' = Op("is_ticket_valid", Null, Null)
    /\ UNCHANGED flowLocals
    /\ FlowFrame

\* if verified_within_last_3_months(id_number): ... else: ...
FlowCheck ==
    LET recent == verified_within_last_3_months(db, FlowIdNumber, ClockTs(clock))
    IN  /\ flowPc = "check"
        /\ flowPc' = IF recent THEN "done" ELSE "match"
        /\ op' = Op("verified_within_last_3_months", FlowIdNumber, recent)
        /\ UNCHANGED <<flowCalls, flowLocals>>
        /\ FlowFrame

\* match_result = match_consumer(ticket, id_number, cell_number) and the test
\* of the two identifiers: exit(1) when one is missing.
FlowMatch(resp) ==
    /\ flowPc = "match"
    /\ flowCalls' = Append(flowCalls,
                           Call("match_consumer", <<flowLocals.ticket, Some(FlowIdNumber)>>, resp))
    /\ IF resp = Raised
         THEN flowPc' = "crashed" /\ UNCHANGED flowLocals
         ELSE /\ flowLocals' = [flowLocals EXCEPT !.enquiry_id = resp.v.enquiry_id,
                                                  !.enquiry_result_id = resp.v.enquiry_result_id]
              /\ flowPc' = IF HasEnquiryIds(resp.v.enquiry_id, resp.v.enquiry_result_id)
                             THEN "request" ELSE "exit1"
    /\ op' = Op("match_consumer", Null, Null)
    /\ FlowFrame

\* link = request_facial_verification(ticket, enquiry_id, enquiry_result_id)
FlowRequest(resp) ==
    /\ flowPc = "request"
    /\ flowCalls' = Append(flowCalls,
                           Call("request_facial_verification",
                                <<flowLocals.ticket, flowLocals.enquiry_id,
                                  flowLocals.enquiry_result_id>>, resp))
    /\ flowPc' = IF resp = Raised THEN "crashed" ELSE "done"
    /\ op' = Op("request_facial_verification", Null, Null)
    /\ UNCHANGED flowLocals
    /\ FlowFrame

(***************************************************************************)
(* Inputs.                                                                 *)
(***************************************************************************)
\* summary dicts, as summarize_consumer_info and the callers build them
SummaryAnn5 == <<Pair("Name", <<"Ann">>), Pair("ID Number", <<"5">>)>>

SummaryBob59 == <<Pair("Name", <<"Bob">>), Pair("ID Number", <<"5", "9">>)>>

\* Blocks of an audit log in the form process_log_file reads.
LegacyFull ==
    <<TsLine(Ts("std", 0, 0)), Line("ClientID", <<"E1">>),
      Line("Verification Status", <<"Success">>), Line("ID Number", <<"5">>)>>

LegacyPhoto ==
    <<TsLine(Ts("std", 0, 0)), Line("ClientID", <<"E1">>),
      Line("ConsumerIDPhoto", <<"/", "tmp", "/", "a">>)>>

LegacyMention ==
    <<TsLine(Ts("bad", 0, 0)), Line("Details", <<"ClientID">>)>>

LegacyNoTimestamp ==
    <<Line("ClientID", <<"E2">>), Line("Name", <<"Timestamp">>)>>

MaxLegacyBlocks == 2

RECURSIVE Concat(_)
Concat(seqs) == IF Len(seqs) = 0 THEN <<>> ELSE seqs[1] \o Concat(Tail(seqs))

\* The logs of at most MaxLegacyBlocks blocks, each followed by a delimiter.
LegacyLogs(blocks, delims) ==
    {Concat(u) : u \in SeqsUpTo({b \o d : b \in blocks, d \in delims}, MaxLegacyBlocks)}

(***************************************************************************)
(* log_verification_result and delete_by_id_number in two processes, step  *)
(* by step.  The writer opens the log for appending and writes its lines   *)
(* to the buffer of the file object; leaving the with block flushes them   *)
(* in one append.  The delete removes the rows, reads the whole log, opens *)
(* it for writing, which empties it, and writes new_content from offset 0  *)
(* when it leaves the with block.                                          *)
(***************************************************************************)
RaceFrame == NoPollPath /\ UNCHANGED <<nextId, cwd, clock, flowVars, schema>>

\* A write of new at offset 0 of a file that holds cur: what cur holds beyond
\* the length of new stays.
Overlay(new, cur) ==
    IF Len(new) >= Len(cur) THEN new
    ELSE new \o SubSeq(cur, Len(new) + 1, Len(cur))

\* with open(logfile, "a") as log: ... log.write(...)
WriterOpen(enquiry_id, enquiry_result_id, summary, status) ==
    /\ writerPc = "idle"
    /\ writerPc' = "open"
    /\ writerBlock' = WriterBlock(ClockTs(clock), enquiry_id, enquiry_result_id,
                                  summary, status)
    /\ op' = Op("open_a", Null, Null)
    /\ RaceFrame
    /\ UNCHANGED <<db, files, log, prunePc, pruneLocals>>

\* the end of the with block: the buffer is appended to the file
WriterClose ==
    /\ writerPc = "open"
    /\ Len(log) + Len(writerBlock) <= MaxLogLines
    /\ log' = log \o writerBlock
    /\ writerPc' = "closed"
    /\ op' = Op("log_verification_result", writerBlock, Null)
    /\ RaceFrame
    /\ UNCHANGED <<db, files, writerBlock, prunePc, pruneLocals>>

\* delete_by_id_number up to conn.close(): the files and the rows are removed
DeleteRows(id_number) ==
    LET rows == {r \in db : IdNumberMatches(r, id_number)}
    IN  /\ prunePc = "idle"
        /\ files' = files \ UNION {RowFilesRemoved(r, cwd, files) : r \in rows}
        /\ db' = db \ rows
        /\ prunePc' = "read"
        /\ pruneLocals' = [id_number |-> Some(id_number),
                           deleted_count |-> Cardinality(rows), content |-> Null]
        /\ op' = Op("delete_rows", id_number, Cardinality(rows))
        /\ RaceFrame
        /\ UNCHANGED <<log, writerPc, writerBlock>>

\* with open(path, "r") as f: content = f.read()
PruneRead ==
    /\ prunePc = "read"
    /\ prunePc' = "truncate"
    /\ pruneLocals' = [pruneLocals EXCEPT !.content = Some(log)]
    /\ op' = Op("read", Null, Null)
    /\ RaceFrame
    /\ UNCHANGED <<db, files, log, writerPc, writerBlock>>

\* open(path, "w")
PruneTruncate ==
    /\ prunePc = "truncate"
    /\ prunePc' = "write"
    /\ log' = <<>>
    /\ op' = Op("open_w", Null, Null)
    /\ RaceFrame
    /\ UNCHANGED <<db, files, pruneLocals, writerPc, writerBlock>>

\* f.write(new_content), the end of the with block, and the return
PruneWrite ==
    LET pruned == delete_audit_blocks(Val(pruneLocals.content), Val(pruneLocals.id_number))
    IN  /\ prunePc = "write"
        /\ prunePc' = "done"
        /\ log' = Overlay(pruned.content, log)
        /\ op' = Op("delete_by_id_number_steps", Val(pruneLocals.id_number),
                    [deleted |-> pruneLocals.deleted_count, removed |-> pruned.removed,
                     ret |-> (pruneLocals.deleted_count > 0 \/ pruned.removed > 0)])
        /\ RaceFrame
        /\ UNCHANGED <<db, files, pruneLocals, writerPc, writerBlock>>

(***************************************************************************)
(* The polling loop alone.                                                 *)
(***************************************************************************)
InitPoll == PollInit /\ PathIdle /\ SysIdle

NextPoll == PollLoop \/ PollCall \/ PollCheck \/ PollSleep

SpecPoll == InitPoll /\ [][NextPoll]_vars

\* The loop is sequential code: a step that can be taken is taken.
SpecPollFair == InitPoll /\ [][NextPoll]_vars /\ WF_vars(NextPoll)

(***************************************************************************)
(* normalize_path alone.                                                   *)
(***************************************************************************)
InitPath == PathInit /\ PollIdle /\ SysIdle

NextPath == NormalizeOnce \/ NormalizeTwice

SpecPath == InitPath /\ [][NextPath]_vars

(***************************************************************************)
(* Reconciliation: live inserts, the writer, process_log_file,             *)
(* retrofill_photos and deletes over an audit log.                         *)
(***************************************************************************)
ReconBlocks == {LegacyFull, LegacyPhoto, LegacyMention, LegacyNoTimestamp}

InitRecon ==
    /\ PollIdle /\ PathIdle
    /\ SysInit(LegacyLogs(ReconBlocks, {<<SessionDelim>>}), {"base"})

NextRecon ==
    \/ Tick
    \/ \E p \in BOOLEAN : LiveInsert("E1", SummaryAnn5, p, FALSE)
    \/ LogVerificationResult("E1", "R1", Some(SummaryAnn5), <<"Success">>)
    \/ ProcessLogFile
    \/ RetrofillPhotos
    \/ DeleteByIdNumber(<<"5">>)

SpecRecon == InitRecon /\ [][NextRecon]_vars

(***************************************************************************)
(* Deleting: live inserts with photos, the writer and the deletes, in      *)
(* BASE_DIR or in another working directory.                               *)
(***************************************************************************)
\* An IDNo with a blank after it, and one with a tab after it.
SummaryPad5 == <<Pair("Name", <<"Ann">>), Pair("ID Number", <<"5", " ">>)>>

SummaryTab5 == <<Pair("Name", <<"Ann">>), Pair("ID Number", <<"5", "\t">>)>>

SummaryId5 == <<Pair("ID Number", <<"5">>)>>

SummaryId59 == <<Pair("ID Number", <<"5", "9">>)>>

DeleteArgs == {<<"5">>, <<"5", "9">>, <<"5", "\t">>}

InitDelete ==
    /\ PollIdle /\ PathIdle
    /\ SysInit({<<>>}, {"base", "other"})

NextDelete ==
    \/ \E s \in {SummaryAnn5, SummaryPad5, SummaryTab5}, p \in BOOLEAN :
          LiveInsert("E1", s, p, FALSE)
    \/ \E s \in {SummaryId5, SummaryId59} :
          LogVerificationResult("E1", "R1", Some(s), <<"Success">>)
    \/ \E id \in 1..MaxId : DeleteVerification(id)
    \/ \E x \in DeleteArgs : DeleteByIdNumber(x)
    \/ \E x \in DeleteArgs : DeleteByIdNumberRoute(x)

SpecDelete == InitDelete /\ [][NextDelete]_vars

(***************************************************************************)
(* The dashboard: live inserts, process_log_file over an audit log whose   *)
(* blocks may lack a status line, and GET /admin/dashboard.                *)
(***************************************************************************)
SummaryBobFailed == <<Pair("Name", <<"Bob">>), Pair("Status", <<"Failed">>)>>

DashBlocks == {LegacyFull, LegacyPhoto}

\* The query strings of the requests.
DashFilters ==
    {Filters(s, n, i, m, y, df, dt) :
        s \in {<<"all">>, <<"success">>, <<"Failed">>},
        n \in {<<>>, <<"ann">>},
        i \in {<<>>},
        m \in {0},
        y \in {-1, 0},
        df \in {NoDate, Date(1)},
        dt \in {NoDate}}

InitDash ==
    /\ PollIdle /\ PathIdle
    /\ SysInit(LegacyLogs(DashBlocks, {<<SessionDelim>>}), {"base"})

NextDash ==
    \/ Tick
    \/ \E s \in {SummaryAnn5, SummaryBobFailed} : LiveInsert("E1", s, FALSE, FALSE)
    \/ ProcessLogFile
    \/ \E f \in DashFilters : Index(f)
    \/ ClientVerification(<<"5">>, <<"0", "7">>)

SpecDash == InitDash /\ [][NextDash]_vars

(***************************************************************************)
(* The main flow over a datastore filled by live inserts and by            *)
(* process_log_file from an older audit log.                               *)
(***************************************************************************)
\* Blocks of an older log that record the id number of the flow, with
\* timestamps in the formats the log may hold.
LegacyBad5 ==
    <<TsLine(Ts("bad", 0, 0)), Line("ClientID", <<"E2">>), Line("ID Number", <<"5">>)>>

LegacyIso5 ==
    <<TsLine(Ts("iso", 0, 0)), Line("ClientID", <<"E3">>), Line("ID Number", <<"5">>)>>

LegacyLate5 ==
    <<TsLine(Ts("std", 0, 1)), Line("ClientID", <<"E4">>), Line("ID Number", <<"5">>)>>

FlowBlocks == {LegacyBad5, LegacyIso5, LegacyLate5}

\* datetime.now() when the script runs: the day of the log, and 90 days
\* after it.
FlowClocks == {0, 2 * RecentDays, 2 * RecentDays + 1}

InitFlow ==
    /\ PollIdle /\ PathIdle /\ FlowIdle /\ RaceIdle
    /\ db = {}
    /\ nextId = 1
    /\ log \in LegacyLogs(FlowBlocks, {<<SessionDelim>>})
    /\ files = {}
    /\ cwd = "base"
    /\ clock \in FlowClocks
    /\ op = Op("init", Null, Null)
    /\ schema = SchemaComplete

NextFlow ==
    \/ Tick
    \/ LiveInsert("E1", SummaryAnn5, FALSE, FALSE)
    \/ ProcessLogFile
    \/ \E resp \in TicketAnswers : FlowLogin(resp)
    \/ \E resp \in ValidAnswers : FlowValidate(resp)
    \/ FlowCheck
    \/ \E resp \in MatchAnswers : FlowMatch(resp)
    \/ \E resp \in TicketAnswers : FlowRequest(resp)

SpecFlow == InitFlow /\ [][NextFlow]_vars

(***************************************************************************)
(* Startup: the schema functions over every state of verifications.db,     *)
(* and live inserts once the table is complete.                            *)
(***************************************************************************)
SchemaStates ==
    {Schema("missing", FALSE, {}), Schema("garbage", FALSE, {}), Schema("db", FALSE, {})}
    \cup {Schema("db", TRUE, c) : c \in SUBSET PhotoCols}

\* Rows written before the process starts, in a table with the columns cols.
OldRow1(cols) ==
    Row(1, Some(Ts("std", 0, 0)), Some(<<"E1">>), Some(<<"Success">>), Some(<<"Ann">>),
        Some(<<"5">>),
        IF "id_photo" \in cols THEN Some(PhotoFile("ids", "id_", "E1")) ELSE Null,
        IF "selfie_photo" \in cols THEN Some(PhotoFile("selfies", "selfie_", "E1")) ELSE Null)

OldRow2 ==
    Row(2, Some(Ts("std", 0, 1)), Some(<<"E2">>), Some(<<"Failed">>), Null, Null, Null, Null)

OldTables(sch) ==
    IF sch.table
      THEN {{}, {OldRow1(sch.cols)}, {OldRow2}, {OldRow1(sch.cols), OldRow2}}
      ELSE {{}}

InitSchema ==
    /\ PollIdle /\ PathIdle /\ FlowIdle /\ RaceIdle
    /\ schema \in SchemaStates
    /\ db \in OldTables(schema)
    /\ nextId = 3
    /\ log = <<>>
    /\ files = {}
    /\ cwd = "base"
    /\ clock = 0
    /\ op = Op("init", Null, Null)

NextSchema ==
    \/ EnsureDatabase
    \/ EnsureDbColumns
    \/ MigrateDatabaseSchema
    \/ Startup
    \/ StartupMain
    \/ Tick
    \/ schema = SchemaComplete /\ DeleteVerification(1)

SpecSchema == InitSchema /\ [][NextSchema]_vars

(***************************************************************************)
(* Deleting while the removal of files or the handling of the audit log    *)
(* fails.                                                                  *)
(***************************************************************************)
LogFaults == {"ok", "read", "write"}

InitCleanup ==
    /\ PollIdle /\ PathIdle
    /\ SysInit({<<>>}, {"base"})

NextCleanup ==
    \/ \E s \in {SummaryAnn5, SummaryPad5}, p \in BOOLEAN : LiveInsert("E1", s, p, FALSE)
    \/ \E s \in {SummaryId5, SummaryId59} :
          LogVerificationResult("E1", "R1", Some(s), <<"Success">>)
    \/ \E x \in {<<"5">>, <<"5", "9">>}, rm_fails \in BOOLEAN, log_fault \in LogFaults :
          DeleteByIdNumberFailing(x, rm_fails, log_fault)

SpecCleanup == InitCleanup /\ [][NextCleanup]_vars

(***************************************************************************)
(* The dashboard's date range over rows of two days.                       *)
(***************************************************************************)
LegacyDay1 ==
    <<TsLine(Ts("std", 1, 1)), Line("ClientID", <<"E2">>),
      Line("Verification Status", <<"Failed">>), Line("ID Number", <<"7">>)>>

RangeBlocks == {LegacyFull, LegacyDay1}

\* Requests with no other parameter than the dates.
RangeFilters ==
    {Filters(<<"all">>, <<>>, <<>>, 0, -1, df, dt) :
        df \in {NoDate, Date(0), Date(1)}, dt \in {NoDate, Date(0), Date(1)}}

InitRange ==
    /\ PollIdle /\ PathIdle
    /\ SysInit(LegacyLogs(RangeBlocks, {<<SessionDelim>>}), {"base"})

NextRange ==
    \/ Tick
    \/ \E s \in {SummaryAnn5, SummaryBobFailed} : LiveInsert("E1", s, FALSE, FALSE)
    \/ ProcessLogFile
    \/ \E f \in RangeFilters : Index(f)

SpecRange == InitRange /\ [][NextRange]_vars

(***************************************************************************)
(* Deleting rows that process_log_file inserted from the audit log, and    *)
(* reconciling again.                                                      *)
(***************************************************************************)
InitDurable ==
    /\ PollIdle /\ PathIdle
    /\ SysInit(LegacyLogs(ReconBlocks, {<<SessionDelim>>}), {"base"})

NextDurable ==
    \/ Tick
    \/ LiveInsert("E1", SummaryAnn5, FALSE, FALSE)
    \/ ProcessLogFile
    \/ \E id \in 1..MaxId : DeleteVerification(id)
    \/ DeleteByIdNumber(<<"5">>)

SpecDurable == InitDurable /\ [][NextDurable]_vars

(***************************************************************************)
(* The writer appending a block of id number 5 while a dashboard request   *)
(* deletes another id number.                                              *)
(***************************************************************************)
RaceDeleteArgs == {<<"7">>, <<"9">>}

InitRace ==
    /\ PollIdle /\ PathIdle
    /\ SysInit(LegacyLogs(RangeBlocks, {<<SessionDelim>>}), {"base"})

NextRace ==
    \/ ProcessLogFile
    \/ WriterOpen("E1", "R1", Some(SummaryId5), <<"Success">>)
    \/ prunePc \notin {"idle", "done"} /\ WriterClose
    \/ \E x \in RaceDeleteArgs : DeleteRows(x)
    \/ PruneRead
    \/ PruneTruncate
    \/ PruneWrite

SpecRace == InitRace /\ [][NextRace]_vars

(***************************************************************************)
(* Claims.                                                                 *)
(***************************************************************************)
\* A response that is non-empty and does not contain "<NoResult>".
Qualifies(r) == r.k = "text" /\ r.t # <<>> /\ \A i \in 1..Len(r.t) : r.t[i] # "<NoResult>"

\* C1: poll_dov_result returns the first response, among the first
\* max_attempts ones, that is non-empty and does not contain "<NoResult>", and
\* the timeout sentinel when none of them qualifies.
C1_PollReturnsFirstUsable ==
    pollPc = "done" =>
        LET good == {i \in 1..pollMax : Qualifies(pollScript[i])}
        IN  IF good = {} THEN pollRet = PollTimeoutSentinel
            ELSE pollRet = pollScript[CHOOSE i \in good : \A j \in good : i <= j]

\* Witness of C1: the third call answers after a "<NoResult>" answer and a
\* failed call.
C1_Witness ==
    /\ pollPc = "done" /\ pollMax = 3 /\ pollCalls = 3
    /\ pollScript[1] = RText(<<"a", "<NoResult>">>) /\ pollScript[2] = RExc
    /\ pollRet = RText(<<"b">>)

\* C9: normalize_path(normalize_path(p)) = normalize_path(p) for every path p.
C9_NormalizeIdempotent == pathPc = 2 => pathOut2 = pathOut

\* Witness of C9: a path with a backslash and a leading slash under uploads,
\* which the first application changes.
C9_Witness ==
    /\ pathPc = 2 /\ pathIn = Some(<<"\\", "uploads", "/", "a">>)
    /\ pathOut = Some(<<"uploads", "/", "a">>)

\* The number of rows of a (timestamp, client_id) pair.
PairCount(table, ts, cid) ==
    Cardinality({r \in table : r.timestamp = ts /\ r.client_id = cid})

\* The pairs of the session blocks of a log.
LogPairs(content) ==
    {<<parse_session_block(b).timestamp, parse_session_block(b).client_id>> :
        b \in {SessionBlocks(content)[i] :
                i \in {j \in 1..Len(SessionBlocks(content)) :
                          IsSessionBlock(SessionBlocks(content)[j])}}}

RowPairs(table) == {<<r.timestamp, r.client_id>> : r \in table}

C2_Step ==
    (op'.name = "process_log_file" /\ op'.ret >= 0) =>
        /\ \A p \in RowPairs(db) \cup RowPairs(db') \cup LogPairs(log) :
              PairCount(db', p[1], p[2]) =
                 IF PairCount(db, p[1], p[2]) > 0 THEN PairCount(db, p[1], p[2])
                 ELSE IF p \in LogPairs(log) THEN 1 ELSE 0
        /\ (op.name = "process_log_file" /\ op.ret >= 0) => db' = db

\* C2: a reconciliation pass leaves the number of rows of a pair that was
\* present unchanged, gives a pair of the log that was absent exactly one row,
\* and inserts nothing when it follows a pass over the same log.
C2_NoDuplicatePairs == [][C2_Step]_vars

\* Witness of C2: a pass over a log with two blocks of the same pair inserted
\* one row for it, beside a row inserted live.
C2_Witness ==
    /\ op.name = "process_log_file" /\ op.ret = 1
    /\ log = LegacyFull \o <<SessionDelim>> \o LegacyPhoto \o <<SessionDelim>>
    /\ PairCount(db, Some(Ts("std", 0, 0)), Some(<<"E1">>)) = 1
    /\ Cardinality(db) = 2

\* The relative form "uploads/...": no leading slash, no backslash.
IsUploadsPath(f) ==
    /\ StartsWith(f, <<"uploads", "/">>)
    /\ \A i \in 1..Len(f) : f[i] # "\\"

\* C6: every non-null id_photo and selfie_photo stored in the datastore has
\* the relative form "uploads/...".
C6_StoredPhotosNormalized ==
    \A r \in db :
        /\ ~IsNull(r.id_photo) => IsUploadsPath(Val(r.id_photo))
        /\ ~IsNull(r.selfie_photo) => IsUploadsPath(Val(r.selfie_photo))

\* The value of the first line of key k in a block, or Null.
BlockValue(b, k) ==
    IF \E i \in 1..Len(b) : b[i].k = k
      THEN Some(b[CHOOSE i \in 1..Len(b) : b[i].k = k /\ \A j \in 1..(i - 1) : b[j].k # k].v)
      ELSE Null

\* The blocks of a log that log_verification_result wrote.
WriterBlocks(content) ==
    {SessionBlocks(content)[i] :
        i \in {j \in 1..Len(SessionBlocks(content)) :
                  ~IsNull(BlockValue(SessionBlocks(content)[j], "Enquiry ID"))}}

\* The timestamp of a block the writer wrote: that of its first line.
WriterTimestamp(b) == b[1].ts

\* C7: after process_log_file the datastore holds, for every block the audit
\* log writer appended, a row with that block's timestamp, id number and
\* status.
C7_WriterBlocksMerged ==
    (op.name = "process_log_file" /\ op.ret >= 0) =>
        \A b \in WriterBlocks(log) :
            \E r \in db : /\ r.timestamp = WriterTimestamp(b)
                          /\ r.status = BlockValue(b, "Status")
                          /\ r.id_number = BlockValue(b, "ID Number")

C8_Step ==
    (op'.name = "retrofill_photos" /\ op'.ret >= 0) =>
        \A r \in db : \E q \in db' :
            /\ q.id = r.id
            /\ q = [r EXCEPT !.id_photo = q.id_photo, !.selfie_photo = q.selfie_photo]
            /\ TruthyStr(r.id_photo) => q.id_photo = r.id_photo
            /\ TruthyStr(r.selfie_photo) => q.selfie_photo = r.selfie_photo

\* C8: retrofill_photos changes no id_photo or selfie_photo that was non-null
\* and non-empty, and no other column.
C8_RetrofillOnlyNullish == [][C8_Step]_vars

C3_IsDelete(o) == o.name \in {"delete_by_id_number", "delete_by_id_number_route"}

\* Some block of the log, as the pruning splits it, holds "ID Number: X".
LogRecordsIdNumber(content, X) ==
    \E i \in 1..Len(content) : content[i].k = "ID Number" /\ StartsWith(content[i].v, X)

C3_Step ==
    C3_IsDelete(op') =>
        LET X == op'.arg
            matched == {r \in db : /\ ~IsNull(r.id_number)
                                   /\ RStrip(LStrip(Val(r.id_number), {" "}), {" "})
                                        = RStrip(LStrip(X, PyWhitespace), PyWhitespace)}
        IN  /\ db' = db \ matched
            /\ op'.ret.ret = (matched # {} \/ LogRecordsIdNumber(log, X))

\* C3 (amended): delete_by_id_number(X) removes exactly the rows whose
\* id_number, with the blanks at both ends removed, equals X with the
\* whitespace at both ends removed; it returns false when no such row exists
\* and no block of the audit log holds "ID Number: X", and true otherwise.
C3_DeleteRemovesTrimmedMatches == [][C3_Step]_vars

\* Witness of C3: deleting "5" removed the rows stored as "5" and "5 " and
\* returned true with no block in the audit log.
C3_Witness ==
    /\ op.name = "delete_by_id_number" /\ op.arg = <<"5">>
    /\ op.ret.deleted = 2 /\ op.ret.removed = 0 /\ op.ret.ret

C3_OriginalStep ==
    C3_IsDelete(op') =>
        LET X == op'.arg
        IN  /\ db' = {r \in db : r.id_number # Some(X)}
            /\ op'.ret.ret = ((\E r \in db : r.id_number = Some(X)) \/ LogRecordsIdNumber(log, X))

\* C3 as stated: delete_by_id_number(X) removes every row whose id_number
\* equals X and no row with a different id_number, and returns false when
\* nothing matched and true otherwise.
C3_DeleteRemovesEqual == [][C3_OriginalStep]_vars

C4_Step ==
    C3_IsDelete(op') =>
        \A r \in db \ db' : \A f \in {r.id_photo, r.selfie_photo} :
            (TruthyStr(f) /\ Val(f) \in files) => Val(f) \notin files'

\* C4: after a delete by id_number no photo file saved for a deleted row still
\* exists, whatever the working directory.
C4_DeleteRemovesPhotoFiles == [][C4_Step]_vars

\* C5: after delete_by_id_number(X) the audit log holds no line
\* "ID Number: X", for a log whose blocks the audit-log writer appended.
C5_DeletePrunesLog ==
    C3_IsDelete(op) =>
        \A i \in 1..Len(log) : ~(log[i].k = "ID Number" /\ log[i].v = op.arg)

\* Witness of C5: the delete removed one block of the id number and left a
\* block the writer appended for another id number.
C5_Witness ==
    /\ C3_IsDelete(op) /\ op.arg = <<"5", "9">> /\ op.ret.removed = 1
    /\ \E i \in 1..Len(log) : log[i].k = "ID Number" /\ log[i].v = <<"5">>

\* C10: a request with a status other than "all" lists rows, and only rows
\* whose stored status equals the status asked for without regard to case.
C10_StatusFilterListsEqual ==
    (op.name = "index" /\ Lower(op.arg.status) # <<"all">>) =>
        /\ ~IsNull(op.ret)
        /\ \A i \in Idx(Val(op.ret)) :
              /\ ~IsNull(Val(op.ret)[i].status)
              /\ Lower(Val(Val(op.ret)[i].status)) = Lower(op.arg.status)

\* The datastore holds a record of the id number whose timestamp, in one of
\* the accepted formats, lies within the last 90 days.
HasRecentRecord(table, id_number, now) ==
    \E r \in table :
        /\ r.id_number = Some(id_number)
        /\ ~IsNull(r.timestamp)
        /\ Val(r.timestamp).fmt \in {"std", "frac", "iso"}
        /\ NotOlderThan(Val(r.timestamp), now, RecentDays)

\* C11: the flow goes on to match_consumer and the facial-verification
\* request if and only if the datastore holds no record of the id number
\* whose timestamp lies within the last 90 days.
C11_SuppressedIffRecent ==
    op.name = "verified_within_last_3_months" =>
        (flowPc # "match" <=> HasRecentRecord(db, FlowIdNumber, ClockTs(clock)))

CallIndices(name) == {i \in 1..Len(flowCalls) : flowCalls[i].name = name}

\* C18: login is the first external call; the facial-verification request
\* follows a match_consumer that answered both identifiers non-empty and
\* carries them and the ticket of login; a match_consumer that answered with
\* an identifier missing is the last call and the flow ends in failure.
C18_FlowOrdering ==
    /\ flowCalls # <<>> => CallIndices("login_to_xds") = {1}
    /\ \A i \in CallIndices("request_facial_verification") :
          /\ i > 1
          /\ flowCalls[i - 1].name = "match_consumer"
          /\ flowCalls[i - 1].resp # Raised
          /\ TruthyStr(flowCalls[i - 1].resp.v.enquiry_id)
          /\ TruthyStr(flowCalls[i - 1].resp.v.enquiry_result_id)
          /\ flowCalls[1].resp # Raised
          /\ flowCalls[i].args = <<Some(flowCalls[1].resp.v),
                                   flowCalls[i - 1].resp.v.enquiry_id,
                                   flowCalls[i - 1].resp.v.enquiry_result_id>>
    /\ \A i \in CallIndices("match_consumer") :
          (/\ flowCalls[i].resp # Raised
           /\ ~(/\ TruthyStr(flowCalls[i].resp.v.enquiry_id)
                /\ TruthyStr(flowCalls[i].resp.v.enquiry_result_id)))
          => i = Len(flowCalls) /\ flowPc = "exit1"

\* Witness of C18: the request was issued with the ticket and both
\* identifiers after login, the ticket check and the match.
C18_Witness ==
    /\ flowPc = "done" /\ Len(flowCalls) = 4
    /\ flowCalls[4].name = "request_facial_verification"
    /\ flowCalls[4].args = <<Some(<<"T1">>), Some(<<"E1">>), Some(<<"R1">>)>>

\* C12: a POST to /verify with id_number and cellphone is answered with a JSON
\* object: success with "Verification started successfully." or failure with
\* "ID or cellphone not recognized."; it never ends in an unhandled error.
C12_VerifyAnswersJson ==
    op.name = "client_verification" =>
        \/ op.ret = Json(TRUE, "Verification started successfully.")
        \/ op.ret = Json(FALSE, "ID or cellphone not recognized.")

C13_IsStartup(o) == o.name \in {"startup", "startup_main"}

C13_Step ==
    (C13_IsStartup(op') /\ schema.file # "garbage") =>
        /\ ~op'.ret
        /\ schema' = SchemaComplete
        /\ db' = db
        /\ (C13_IsStartup(op) /\ ~op.ret) => schema' = schema

\* C13: from a datastore with no file, no table, a table without the photo
\* columns or a complete table, ensure_database followed by ensure_db_columns
\* leaves a table with both photo columns and the rows it had, unchanged;
\* running the pair again changes neither schema nor rows.
C13_MigrationIdempotent == [][C13_Step]_vars

\* Witness of C13: the startup added both photo columns to a table of two
\* rows.
C13_Witness ==
    /\ op.name = "startup" /\ op.arg = Schema("db", TRUE, {})
    /\ schema = SchemaComplete /\ Cardinality(db) = 2

\* C14: ensure_database completes without raising and the verifications table
\* exists afterwards, whether the check found the file missing, the table
\* missing, or raised a database error.
C14_EnsureDatabaseRecovers ==
    op.name = "ensure_database" => (~op.ret /\ schema.table)

C15_Step ==
    op'.name = "delete_by_id_number_failing" =>
        LET a == op'.arg
            matched == {r \in db : /\ ~IsNull(r.id_number)
                                   /\ RStrip(LStrip(Val(r.id_number), {" "}), {" "})
                                        = RStrip(LStrip(a.id_number, PyWhitespace), PyWhitespace)}
            rmFailed == a.rm_fails /\ \E r \in matched : \E f \in {r.id_photo, r.selfie_photo} :
                                         TruthyStr(f) /\ Val(f) \in files
        IN  /\ ~op'.ret.raised
            /\ db' = db \ matched
            /\ a.log_fault # "ok" => op'.ret.ret = (matched # {})
            /\ rmFailed => op'.ret.ret /\ matched # {}

\* C15: when removing a photo file fails or pruning the audit log fails,
\* delete_by_id_number does not raise, the matching rows are deleted all the
\* same and the value returned tells whether rows were deleted.
C15_CleanupBestEffort == [][C15_Step]_vars

\* Witness of C15: the removal of the photo and the reading of the log failed;
\* the row was deleted, its photo is still on disk and true was returned.
C15_Witness ==
    /\ op.name = "delete_by_id_number_failing"
    /\ op.arg.rm_fails /\ op.arg.log_fault = "read"
    /\ op.ret.deleted = 1 /\ op.ret.ret /\ files # {}
    /\ \E i \in 1..Len(log) : log[i].k = "ID Number" /\ log[i].v = op.arg.id_number

C16_Safe ==
    /\ pollCalls <= pollMax
    /\ \A i \in 1..(pollCalls - 1) : ~Qualifies(pollScript[i])
    /\ pollResult.k # "exc" /\ pollRet.k # "exc"
    /\ (pollPc = "done" /\ \A i \in 1..pollMax : pollScript[i] = RExc) =>
          pollRet = PollTimeoutSentinel /\ pollCalls = pollMax

\* C16: poll_dov_result terminates; it calls get_dov_result at most
\* max_attempts times and never after a usable result; an exception of
\* get_dov_result is never propagated, and a run in which every call fails
\* ends with the timeout sentinel after exactly max_attempts calls.
C16_PollTerminates == <>(pollPc = "done") /\ []C16_Safe

\* Witness of C16: three calls, each failing, then the sentinel.
C16_Witness ==
    /\ pollPc = "done" /\ pollMax = 3 /\ pollCalls = 3
    /\ \A i \in 1..3 : pollScript[i] = RExc
    /\ pollRet = PollTimeoutSentinel

\* The session blocks of a log, as the writer delimits them, that are not
\* empty.
C17_Sessions(content) ==
    {SessionBlocks(content)[i] :
        i \in {j \in 1..Len(SessionBlocks(content)) : SessionBlocks(content)[j] # <<>>}}

\* The block holds the line "ID Number: X".
C17_Records(b, X) == \E i \in 1..Len(b) : b[i].k = "ID Number" /\ b[i].v = X

C17_Step ==
    C3_IsDelete(op') =>
        /\ \A b \in C17_Sessions(log) : ~C17_Records(b, op'.arg) => b \in C17_Sessions(log')
        /\ (\A b \in C17_Sessions(log) : ~C17_Records(b, op'.arg)) => log' = log

\* C17: delete_by_id_number(X) leaves every session block that does not
\* record id number X in the audit log, and leaves the log as it is when no
\* block records X.
C17_DeleteKeepsOtherBlocks == [][C17_Step]_vars

\* The rows the request lists when its dates are left out.
C19_Others ==
    index(db, [op.arg EXCEPT !.year = IF @ = -1 THEN YearOf(ClockTs(clock).day) ELSE @,
                             !.date_from = NoDate, !.date_to = NoDate])

\* C19: with date_from and date_to valid dates the dashboard lists exactly
\* the rows, among those passing the other filters, whose timestamp falls on
\* a day from date_from to date_to inclusive.
C19_DateRangeInclusive ==
    (/\ op.name = "index"
     /\ ~IsNull(op.arg.date_from) /\ Val(op.arg.date_from).ok
     /\ ~IsNull(op.arg.date_to) /\ Val(op.arg.date_to).ok
     /\ ~IsNull(C19_Others)) =>
        /\ ~IsNull(op.ret)
        /\ Val(op.ret) =
             KeepIdx(Val(C19_Others),
                     {i \in Idx(Val(C19_Others)) :
                         /\ ~IsNull(Strptime(Val(C19_Others)[i].timestamp))
                         /\ Val(Val(C19_Others)[i].timestamp).day >= Val(op.arg.date_from).day
                         /\ Val(Val(C19_Others)[i].timestamp).day <= Val(op.arg.date_to).day})

\* The same record but for the row id.
C20_SameRecord(r, d) == [r EXCEPT !.id = 0] = [d EXCEPT !.id = 0]

\* A step of delete_verification or delete_by_id_number is not followed by a
\* pass of process_log_file that inserts a row the step deleted.
C20_Step ==
    (op'.name \in {"delete_verification", "delete_by_id_number"} /\ cwd' = "base") =>
        LET deleted == db \ db'
            pass == process_log_file(db', nextId', log')
        IN  \A r \in pass.table \ db' : \A d \in deleted : ~C20_SameRecord(r, d)

\* C20: once a record has been deleted, by row id or by id number, a later
\* pass of process_log_file over the audit log as the deletion left it does
\* not insert that record again.
C20_DeletionDurable == [][C20_Step]_vars

\* C21: the dashboard request completes with a rendered page for every state
\* of the table that live inserts and process_log_file reach and for every
\* combination of filter values: no filter and no statistic raises.
C21_DashboardRenders == op.name = "index" => ~IsNull(op.ret)

\* C22: when log_verification_result appends a block while delete_by_id_number
\* runs for another id number, the block is in the audit log once both have
\* finished, under every interleaving.
C22_NoBlockLostInRace ==
    (prunePc = "done" /\ writerPc = "closed") => IsInfix(writerBlock, log)

=============================================================================
